---- MODULE Spec2Model ----
(***************************************************************************)
(* Model of claude-code/mcp-stdio-proxy.py: the stdio-to-HTTP bridge of    *)
(* the WhatsApp MCP server.  The script is one sequential flow: module     *)
(* start-up (configuration, credential check), then a loop that reads a    *)
(* line from stdin, posts it downstream and prints the result.             *)
(*                                                                         *)
(* Text is modelled as a sequence of lexemes (one-character strings for    *)
(* whitespace and body characters, short strings for JSON lexemes).        *)
(* Python's None is the atom "None"; atoms are only compared with atoms.   *)
(*                                                                         *)
(* Besides the script's own variables the state records what the script    *)
(* has done: stdout (the units printed, each tagged with the line it was   *)
(* printed for), request (the last request posted), outcome (how the post  *)
(* of the current line ended), rawline (the line as readline returned      *)
(* it), nread and nreq (lines read, requests posted), lastToken (the       *)
(* session token of the last response that carried one), posted (the      *)
(* input line numbers requests were posted for, in order), ndone (the      *)
(* calls that have returned or raised), logfile (the lines appended to     *)
(* /tmp/mcp-proxy.log), exitStatus and uncaught (how the process ended).   *)
(***************************************************************************)
EXTENDS Integers, Sequences, FiniteSets

VARIABLES env, API_KEY, TIMEOUT, pc, exitStatus, uncaught, mcp_session_id,
          rawline, line, request_id, request, outcome, stdout, nread, nreq, lastToken,
          posted, ndone, DEBUG, logfile

vars == <<env, API_KEY, TIMEOUT, pc, exitStatus, uncaught, mcp_session_id,
          rawline, line, request_id, request, outcome, stdout, nread, nreq,
          lastToken, posted, ndone, DEBUG, logfile>>

\* ---------------------------------------------------------------- bounds
\* Number of lines the input source delivers before it is exhausted.
MaxLines == 2

\* ------------------------------------------------------- Python basics
None == "None"

\* Truth value of a Python str-or-None held as an atom.
Truthy(v) == v \notin {None, ""}

\* str.strip() removes leading and trailing whitespace characters.
Whitespace == {" ", "\n"}

RECURSIVE LStrip(_)
LStrip(s) ==
    IF s = <<>> THEN <<>>
    ELSE IF Head(s) \in Whitespace THEN LStrip(Tail(s))
    ELSE s

RECURSIVE RStrip(_)
RStrip(s) ==
    IF s = <<>> THEN <<>>
    ELSE IF s[Len(s)] \in Whitespace THEN RStrip(SubSeq(s, 1, Len(s) - 1))
    ELSE s

\* A strip that leaves the end of the line alone.
StripLeftOnly(s) == LStrip(s)

\* line.strip()
Strip(s) == RStrip(LStrip(s))

\* print(x, flush=True): the text followed by a newline.
WriteLine(text) == text \o <<"\n">>

\* --------------------------------------------------------------- json
\* json.loads on a line of lexemes.  Whitespace between lexemes is
\* insignificant; a document is a number, an empty array, or an object
\* whose members are separated by commas.
RECURSIVE DropWhitespace(_)
DropWhitespace(s) ==
    IF s = <<>> THEN <<>>
    ELSE IF Head(s) \in Whitespace THEN DropWhitespace(Tail(s))
    ELSE <<Head(s)>> \o DropWhitespace(Tail(s))

MemberLexemes == {"\"id\":1", "\"id\":2", "\"m\":0"}

MemberKey(m) == IF m = "\"m\":0" THEN "m" ELSE "id"

MemberValue(m) ==
    CASE m = "\"id\":1" -> "1"
      [] m = "\"id\":2" -> "2"
      [] OTHER -> "0"

\* member ("," member)*
RECURSIVE IsMemberList(_)
IsMemberList(t) ==
    /\ t # <<>>
    /\ Head(t) \in MemberLexemes
    /\ \/ Len(t) = 1
       \/ /\ Len(t) >= 3
          /\ t[2] = ","
          /\ IsMemberList(SubSeq(t, 3, Len(t)))

\* The dict built from a member list: a later duplicate key wins.
RECURSIVE MembersToDict(_)
MembersToDict(t) ==
    IF t = <<>> THEN [k \in {} |-> None]
    ELSE IF Head(t) = "," THEN MembersToDict(Tail(t))
    ELSE LET rest == MembersToDict(Tail(t))
             k == MemberKey(Head(t))
         IN  [x \in DOMAIN rest \cup {k} |->
                 IF x \in DOMAIN rest THEN rest[x] ELSE MemberValue(Head(t))]

JsonLoads(s) ==
    LET t == DropWhitespace(s)
        inner == SubSeq(t, 2, Len(t) - 1)
    IN  IF t = <<"7">> THEN [ok |-> TRUE, type |-> "int"]
        ELSE IF t = <<"[", "]">> THEN [ok |-> TRUE, type |-> "list"]
        ELSE IF /\ Len(t) >= 2
                /\ t[1] = "{"
                /\ t[Len(t)] = "}"
                /\ (inner = <<>> \/ IsMemberList(inner))
             THEN [ok |-> TRUE, type |-> "dict", value |-> MembersToDict(inner)]
        ELSE [ok |-> FALSE]

\* dict.get(key): the value, or None when the key is absent.
DictGet(d, k) == IF k \in DOMAIN d THEN d[k] ELSE None

\* json.dumps of an error dict (default separators, ensure_ascii).
StrRepr(n) ==
    CASE n = 200 -> "200"
      [] n = 400 -> "400"
      [] n = 404 -> "404"
      [] n = -32000 -> "-32000"
      [] n = -32600 -> "-32600"
      [] OTHER -> "?"

RECURSIVE JsonEscape(_)
JsonEscape(s) ==
    IF s = <<>> THEN <<>>
    ELSE (CASE Head(s) = "\n" -> <<"\\n">>
            [] Head(s) = "\"" -> <<"\\\"">>
            [] OTHER -> <<Head(s)>>) \o JsonEscape(Tail(s))

JsonDumps(e) ==
    <<"{\"jsonrpc\": \"2.0\", \"id\": ",
      IF e.id = None THEN "null" ELSE e.id,
      ", \"error\": {\"code\": ", StrRepr(e.error.code),
      ", \"message\": \"">> \o JsonEscape(e.error.message) \o <<"\"}}">>

\* The error dict the script builds at each of its five error sites.
ErrorDict(id, code, message) ==
    [jsonrpc |-> "2.0", id |-> id,
     error |-> [code |-> code, message |-> message]]

\* What print(json.dumps(error)) and print(response_text) add to stdout.
ErrorUnit(e, n) ==
    [kind |-> "error", obj |-> e, text |-> WriteLine(JsonDumps(e)), forLine |-> n]

RawUnit(text, n) == [kind |-> "raw", text |-> WriteLine(text), forLine |-> n]

\* ------------------------------------------------------- configuration
\* os.environ.get(name, default)
EnvGet(e, name, default) == IF name \in DOMAIN e THEN e[name] ELSE default

Digits == {"0", "1", "2", "3", "4", "5", "6", "7", "8", "9"}

\* int(s) succeeds on a non-empty string of decimal digits.
IntOk(s) == s # <<>> /\ \A i \in 1..Len(s) : s[i] \in Digits

DigitValue(c) ==
    CHOOSE n \in 0..9 : <<"0", "1", "2", "3", "4", "5", "6", "7", "8", "9">>[n + 1] = c

RECURSIVE IntOf(_)
IntOf(s) ==
    IF s = <<>> THEN 0
    ELSE 10 * IntOf(SubSeq(s, 1, Len(s) - 1)) + DigitValue(s[Len(s)])

\* Environments the bridge is started in: the credential is unset, empty
\* or set; the timeout is unset (the default applies) or not a number.
Environments ==
    { [n \in D |-> IF n = "MCP_API_KEY" THEN k ELSE t] :
        D \in SUBSET {"MCP_API_KEY", "MCP_TIMEOUT"},
        k \in {"", "k3y"}, t \in {<<"s">>} }

\* str.lower() on the values MCP_DEBUG takes here.
Lower(v) == IF v = "True" THEN "true" ELSE v

\* Line 25: DEBUG.
DebugOf(e) == Lower(EnvGet(e, "MCP_DEBUG", "")) \in {"1", "true", "yes"}

\* The environments of Init, with MCP_DEBUG unset or set.
DebugEnvironments ==
    Environments \cup
    { [n \in DOMAIN e \cup {"MCP_DEBUG"} |-> IF n = "MCP_DEBUG" THEN d ELSE e[n]] :
        e \in Environments, d \in {"True", "0"} }

\* ----------------------------------------------------------------- log
\* Lines 43-47: one timestamped line per message, when DEBUG is on.
LogEntry(msg) == <<"[<timestamp>] ">> \o msg \o <<"\n">>

LogIf(debug, msgs) ==
    IF debug THEN logfile \o [i \in 1..Len(msgs) |-> LogEntry(msgs[i])]
    ELSE logfile

\* str() of the small numbers that are logged.
IntRepr(n) ==
    LET d == <<"0", "1", "2", "3", "4", "5", "6", "7", "8", "9">>
    IN  IF n < 10 THEN <<d[n + 1]>> ELSE <<d[(n \div 10) + 1], d[(n % 10) + 1]>>

\* The slices line[:200] and response_text[:200].
LogSliceLen == 200

Slice(t) == SubSeq(t, 1, IF Len(t) < LogSliceLen THEN Len(t) ELSE LogSliceLen)

\* Lines 50-51: the URL is logged with the credential masked.
StartupLog == << <<"=== Proxy started ===">>, <<"URL: http://localhost:8080/mcp/***">> >>

\* Lines 62-64.
ReadLog(l) ==
    << <<"Waiting for input...">>,
       <<"Got line: ">> \o IntRepr(Len(l)) \o <<" chars">> >>

\* Lines 67 and 157.
EofLog == << <<"EOF received, exiting">>, <<"=== Proxy exiting ===">> >>

\* Line 72.
BlankLog == << <<"Empty line, continuing">> >>

\* Lines 83-91.
RequestLog(l, id, sid) ==
    << <<"Request (id=", id, "): ">> \o Slice(l) \o <<"...">> >>
    \o (IF Truthy(sid) THEN << <<"Using session: ", sid>> >> ELSE <<>>)
    \o << <<"Sending HTTP request...">> >>

\* Lines 98-103.
ResponseLog(r) ==
    << <<"Got response: ", StrRepr(r.status_code)>> >>
    \o (IF \E h \in r.headers : h[1] = "Mcp-Session-Id"
        THEN << <<"New session ID: ",
                  (CHOOSE h \in r.headers : h[1] = "Mcp-Session-Id")[2]>> >>
        ELSE <<>>)

\* Lines 106-130.
ClassifyLog(r) ==
    << <<"Response (">> \o IntRepr(Len(r.text)) \o <<" chars): ">>
       \o (IF r.text # <<>> THEN Slice(r.text) ELSE <<"EMPTY">>) \o <<"...">> >>
    \o (IF r.status_code >= 400
        THEN << <<"HTTP ERROR ", StrRepr(r.status_code), ": ">> \o r.text,
                <<"Error response written to stdout">> >>
        ELSE IF r.text = <<>>
        THEN << <<"Skipped empty response (notification ack)">> >>
        ELSE << <<"Response written to stdout">> >>)

\* Lines 133, 141 and 149: the except clauses log the exception's text.
FailureLog(e) ==
    IF "Timeout" \in e.bases THEN << <<"Request timed out">> >>
    ELSE IF "ConnectionError" \in e.bases
    THEN << <<"Connection error: ">> \o e.desc >>
    ELSE << <<"Exception: ">> \o e.desc >>

MCP_URL(key) == <<"http://localhost:8080/mcp/", key>>

NoOutcome == [kind |-> "none"]
NoRequest == [sent |-> FALSE]

\* The state a process starts in, in one of the environments envs.
StartIn(envs) ==
    /\ env \in envs
    /\ API_KEY = None
    /\ TIMEOUT = 0
    /\ pc = "startup"
    /\ exitStatus = -1
    /\ uncaught = None
    /\ mcp_session_id = None
    /\ rawline = <<>>
    /\ line = <<>>
    /\ request_id = None
    /\ request = NoRequest
    /\ outcome = NoOutcome
    /\ stdout = <<>>
    /\ nread = 0
    /\ nreq = 0
    /\ lastToken = None
    /\ posted = <<>>
    /\ ndone = 0
    /\ DEBUG = FALSE
    /\ logfile = <<>>

\* Debug logging is off unless MCP_DEBUG asks for it: the environments of
\* Init leave it unset.
Init == StartIn(Environments)

\* The same start with MCP_DEBUG unset, set to a true value or set to
\* another value.
InitDebug == StartIn(DebugEnvironments)

\* ------------------------------------------------------------ start-up
\* Line 24: int() of a malformed MCP_TIMEOUT raises ValueError, which
\* nothing catches: traceback on stderr, exit status 1.
StartupBadTimeout ==
    /\ pc = "startup"
    /\ ~IntOk(EnvGet(env, "MCP_TIMEOUT", <<"3", "0">>))
    /\ pc' = "terminated"
    /\ uncaught' = "ValueError"
    /\ exitStatus' = 1
    /\ API_KEY' = EnvGet(env, "MCP_API_KEY", None)
    /\ logfile' = logfile
    /\ UNCHANGED <<env, TIMEOUT, mcp_session_id, rawline, line, request_id,
                   request, outcome, stdout, nread, nreq, lastToken,
                   posted, ndone, DEBUG>>

\* Lines 27-37: no credential.
StartupNoCredential ==
    /\ pc = "startup"
    /\ IntOk(EnvGet(env, "MCP_TIMEOUT", <<"3", "0">>))
    /\ ~Truthy(EnvGet(env, "MCP_API_KEY", None))
    /\ DEBUG' = DebugOf(env)
    /\ logfile' = logfile
    /\ API_KEY' = EnvGet(env, "MCP_API_KEY", None)
    /\ TIMEOUT' = IntOf(EnvGet(env, "MCP_TIMEOUT", <<"3", "0">>))
    /\ stdout' = Append(stdout,
          ErrorUnit(ErrorDict(None, -32600,
              <<"MCP_API_KEY environment variable is required">>), 0))
    /\ pc' = "terminated"
    /\ exitStatus' = 1
    /\ UNCHANGED <<env, uncaught, mcp_session_id, rawline, line, request_id,
                   request, outcome, nread, nreq, lastToken,
                   posted, ndone>>

\* Lines 21-59 with a credential: the loop is entered with no session.
StartupOk ==
    /\ pc = "startup"
    /\ IntOk(EnvGet(env, "MCP_TIMEOUT", <<"3", "0">>))
    /\ Truthy(EnvGet(env, "MCP_API_KEY", None))
    /\ DEBUG' = DebugOf(env)
    /\ logfile' = LogIf(DebugOf(env), StartupLog)
    /\ API_KEY' = EnvGet(env, "MCP_API_KEY", None)
    /\ TIMEOUT' = IntOf(EnvGet(env, "MCP_TIMEOUT", <<"3", "0">>))
    /\ mcp_session_id' = None
    /\ pc' = "running"
    /\ UNCHANGED <<env, exitStatus, uncaught, rawline, line, request_id,
                   request, outcome, stdout, nread, nreq, lastToken,
                   posted, ndone>>

\* ---------------------------------------------------------- input lines
Pad(n) == [i \in 1..n |-> " "]

\* The texts that arrive on stdin: objects with an id, with a duplicated
\* id, with interior whitespace or without an id, documents that are not
\* objects, and text that is not JSON.
Cores ==
    { <<"{", "\"id\":1", "}">>,
      <<"{", "\"id\":1", ",", "\"id\":2", "}">>,
      <<"{", "\"id\":2", ",", " ", "\"m\":0", "}">>,
      <<"{", "\"m\":0", "}">>,
      <<"[", "]">>,
      <<"7">>,
      <<"{", "\"id\":1">> }

\* Blanks before and after the text of a line.
Paddings == { <<0, 0>>, <<1, 2>> }

\* sys.stdin.readline() returns the line with its terminating newline.
Lines ==
    { Pad(p[1]) \o c \o Pad(p[2]) \o <<"\n">> : c \in Cores, p \in Paddings }
    \cup { Pad(p[1]) \o <<"\n">> : p \in Paddings }

\* ------------------------------------------------------ downstream side
Statuses == {200, 400, 404}

SessionTokens == {"", "s1", "s2"}

Bodies == { <<>>, <<"a", "\n", "b">> }

SessionHeader == "Mcp-Session-Id"

\* What session.post can return: status, headers, body text.
Responses ==
    { [kind |-> "response", status_code |-> st, headers |-> h, text |-> b] :
        st \in Statuses,
        h \in {{}} \cup { {<<SessionHeader, t>>} : t \in SessionTokens },
        b \in Bodies }

\* What session.post can raise, with the classes the exception belongs to
\* and its str().  requests.ConnectTimeout is both a ConnectionError and a
\* Timeout; the description of a connection failure names the URL.
Exceptions(key) ==
    { [kind |-> "raise", class |-> "ReadTimeout",
       bases |-> {"ReadTimeout", "Timeout", "RequestException", "Exception"},
       desc |-> <<"Read timed out.">>],
      [kind |-> "raise", class |-> "ConnectTimeout",
       bases |-> {"ConnectTimeout", "ConnectionError", "Timeout",
                  "RequestException", "Exception"},
       desc |-> <<"Max retries exceeded with url: /mcp/", key>>],
      [kind |-> "raise", class |-> "ConnectionError",
       bases |-> {"ConnectionError", "RequestException", "Exception"},
       desc |-> <<"Max retries exceeded with url: /mcp/", key>>],
      [kind |-> "raise", class |-> "ChunkedEncodingError",
       bases |-> {"ChunkedEncodingError", "RequestException", "Exception"},
       desc |-> <<"Connection broken">>] }

\* ------------------------------------------------------------ the loop
\* The probe without the reset of line 76: an undecodable line keeps the
\* id of the line before it.
RequestIdKept(l) ==
    LET r == JsonLoads(l)
    IN  IF ~r.ok THEN [raised |-> None, id |-> request_id]
        ELSE IF r.type # "dict" THEN [raised |-> "AttributeError", id |-> None]
        ELSE [raised |-> None, id |-> DictGet(r.value, "id")]

\* The probe without the except clause of lines 80-81: a line that does
\* not decode raises out of the loop.
RequestIdUncaught(l) ==
    LET r == JsonLoads(l)
    IN  IF ~r.ok THEN [raised |-> "JSONDecodeError", id |-> None]
        ELSE IF r.type # "dict" THEN [raised |-> "AttributeError", id |-> None]
        ELSE [raised |-> None, id |-> DictGet(r.value, "id")]

\* Lines 76-81: the id for error replies.  Only JSONDecodeError is caught;
\* .get on a document that is not a dict raises AttributeError.
RequestIdOf(l) ==
    LET r == JsonLoads(l)
    IN  IF ~r.ok THEN [raised |-> None, id |-> None]
        ELSE IF r.type # "dict" THEN [raised |-> "AttributeError", id |-> None]
        ELSE [raised |-> None, id |-> DictGet(r.value, "id")]

\* Lines 85-88: the per-request headers.
HeadersFor(sid) == IF Truthy(sid) THEN {<<SessionHeader, sid>>} ELSE {}

\* "Mcp-Session-Id" in response.headers, response.headers["Mcp-Session-Id"]
HasSessionHeader(r) == \E h \in r.headers : h[1] = SessionHeader

SessionHeaderOf(r) == (CHOOSE h \in r.headers : h[1] = SessionHeader)[2]

\* A session update that takes whatever the headers give, also nothing.
SessionAfterOrNone(sid, r) == IF HasSessionHeader(r) THEN SessionHeaderOf(r) ELSE None

\* A session update that only trusts successful responses.
SessionAfterSuccess(sid, r) ==
    IF HasSessionHeader(r) /\ r.status_code < 400 THEN SessionHeaderOf(r) ELSE sid

\* Lines 101-102: the session id after a response.
SessionAfter(sid, r) == IF HasSessionHeader(r) THEN SessionHeaderOf(r) ELSE sid

\* A classification that prints the body the way the log shows it, cut
\* to its first character.
EmissionCut(r, id, n) ==
    IF r.status_code >= 400
    THEN << ErrorUnit(ErrorDict(id, -32000,
              <<"HTTP ", StrRepr(r.status_code), ": ">> \o r.text), n) >>
    ELSE IF r.text = <<>> THEN <<>>
    ELSE << RawUnit(SubSeq(r.text, 1, 1), n) >>

\* A classification that tests for the empty body before the status.
EmissionEmptyFirst(r, id, n) ==
    IF r.text = <<>> THEN <<>>
    ELSE IF r.status_code >= 400
    THEN << ErrorUnit(ErrorDict(id, -32000,
              <<"HTTP ", StrRepr(r.status_code), ": ">> \o r.text), n) >>
    ELSE << RawUnit(r.text, n) >>

\* Lines 105-130: what a response adds to stdout.
Emission(r, id, n) ==
    IF r.status_code >= 400
    THEN << ErrorUnit(ErrorDict(id, -32000,
              <<"HTTP ", StrRepr(r.status_code), ": ">> \o r.text), n) >>
    ELSE IF r.text = <<>> THEN <<>>
    ELSE << RawUnit(r.text, n) >>

\* Handlers with the clause for connection failures tried first.
FailureMessageConnFirst(e) ==
    IF "ConnectionError" \in e.bases
    THEN <<"Connection error: Is the WhatsApp MCP server running?">>
    ELSE IF "Timeout" \in e.bases THEN <<"Request timed out">>
    ELSE e.desc

\* Handlers without the clause for connection failures.
FailureMessageNoConnClause(e) ==
    IF "Timeout" \in e.bases THEN <<"Request timed out">>
    ELSE e.desc

\* Lines 132-155: the message of the first except clause that matches.
FailureMessage(e) ==
    IF "Timeout" \in e.bases THEN <<"Request timed out">>
    ELSE IF "ConnectionError" \in e.bases
    THEN <<"Connection error: Is the WhatsApp MCP server running?">>
    ELSE e.desc

\* Lines 63-68: readline returns "" at end of input; the loop ends and the
\* script runs off its end.
ReadEOF ==
    /\ pc = "running"
    /\ rawline' = <<>>
    /\ line' = <<>>
    /\ outcome' = NoOutcome
    /\ pc' = "terminated"
    /\ exitStatus' = 0
    /\ logfile' = LogIf(DEBUG, ReadLog(<<>>) \o EofLog)
    /\ UNCHANGED <<env, API_KEY, TIMEOUT, uncaught, mcp_session_id,
                   request_id, request, stdout, nread, nreq, lastToken,
                   posted, ndone, DEBUG>>

\* Lines 63-73: a line that is empty once stripped.
ReadBlank(l) ==
    /\ pc = "running"
    /\ nread < MaxLines
    /\ Strip(l) = <<>>
    /\ rawline' = l
    /\ line' = Strip(l)
    /\ outcome' = NoOutcome
    /\ nread' = nread + 1
    /\ logfile' = LogIf(DEBUG, ReadLog(l) \o BlankLog)
    /\ UNCHANGED <<env, API_KEY, TIMEOUT, pc, exitStatus, uncaught,
                   mcp_session_id, request_id, request, stdout, nreq, lastToken,
                   posted, ndone, DEBUG>>

\* Lines 63-79: a line that is JSON but not an object; the AttributeError
\* of line 79 is outside every try block and ends the process.
ReadNonObject(l) ==
    /\ pc = "running"
    /\ nread < MaxLines
    /\ Strip(l) # <<>>
    /\ RequestIdOf(Strip(l)).raised # None
    /\ rawline' = l
    /\ line' = Strip(l)
    /\ outcome' = NoOutcome
    /\ nread' = nread + 1
    /\ request_id' = None
    /\ uncaught' = RequestIdOf(Strip(l)).raised
    /\ exitStatus' = 1
    /\ pc' = "terminated"
    /\ logfile' = LogIf(DEBUG, ReadLog(l))
    /\ UNCHANGED <<env, API_KEY, TIMEOUT, mcp_session_id, request, stdout, nreq, lastToken,
                   posted, ndone, DEBUG>>

\* A loop without the blank-line test of lines 71-73.
ReadAndPostBlankToo(l) ==
    /\ pc = "running"
    /\ nread < MaxLines
    /\ RequestIdOf(Strip(l)).raised = None
    /\ rawline' = l
    /\ line' = Strip(l)
    /\ outcome' = NoOutcome
    /\ nread' = nread + 1
    /\ request_id' = RequestIdOf(Strip(l)).id
    /\ request' = [sent |-> TRUE, url |-> MCP_URL(API_KEY), data |-> Strip(l),
                   headers |-> HeadersFor(mcp_session_id),
                   timeout |-> TIMEOUT, forLine |-> nread + 1]
    /\ nreq' = nreq + 1
    /\ posted' = Append(posted, nread + 1)
    /\ pc' = "posting"
    /\ logfile' = LogIf(DEBUG, ReadLog(l) \o
          RequestLog(Strip(l), RequestIdOf(Strip(l)).id, mcp_session_id))
    /\ UNCHANGED <<env, API_KEY, TIMEOUT, exitStatus, uncaught,
                   mcp_session_id, stdout, lastToken, ndone, DEBUG>>

\* A loop that reads and posts the next line without waiting for the call
\* of the line before it.
ReadAndPostPipelined(l) ==
    /\ pc \in {"running", "posting"}
    /\ nread < MaxLines
    /\ Strip(l) # <<>>
    /\ RequestIdOf(Strip(l)).raised = None
    /\ rawline' = l
    /\ line' = Strip(l)
    /\ outcome' = NoOutcome
    /\ nread' = nread + 1
    /\ request_id' = RequestIdOf(Strip(l)).id
    /\ request' = [sent |-> TRUE, url |-> MCP_URL(API_KEY), data |-> Strip(l),
                   headers |-> HeadersFor(mcp_session_id),
                   timeout |-> TIMEOUT, forLine |-> nread + 1]
    /\ nreq' = nreq + 1
    /\ posted' = Append(posted, nread + 1)
    /\ pc' = "posting"
    /\ logfile' = LogIf(DEBUG, ReadLog(l) \o
          RequestLog(Strip(l), RequestIdOf(Strip(l)).id, mcp_session_id))
    /\ UNCHANGED <<env, API_KEY, TIMEOUT, exitStatus, uncaught,
                   mcp_session_id, stdout, lastToken, ndone, DEBUG>>

\* Lines 63-97: a line is read, stripped, probed for its id and posted.
ReadAndPost(l) ==
    /\ pc = "running"
    /\ nread < MaxLines
    /\ Strip(l) # <<>>
    /\ RequestIdOf(Strip(l)).raised = None
    /\ rawline' = l
    /\ line' = Strip(l)
    /\ outcome' = NoOutcome
    /\ nread' = nread + 1
    /\ request_id' = RequestIdOf(Strip(l)).id
    /\ request' = [sent |-> TRUE, url |-> MCP_URL(API_KEY), data |-> Strip(l),
                   headers |-> HeadersFor(mcp_session_id),
                   timeout |-> TIMEOUT, forLine |-> nread + 1]
    /\ nreq' = nreq + 1
    /\ posted' = Append(posted, nread + 1)
    /\ pc' = "posting"
    /\ logfile' = LogIf(DEBUG, ReadLog(l) \o
          RequestLog(Strip(l), RequestIdOf(Strip(l)).id, mcp_session_id))
    /\ UNCHANGED <<env, API_KEY, TIMEOUT, exitStatus, uncaught,
                   mcp_session_id, stdout, lastToken, ndone, DEBUG>>

\* Lines 92-103: the call returns a response; the session id is taken
\* from its headers.
PostReturns(r) ==
    /\ pc = "posting"
    /\ outcome' = r
    /\ mcp_session_id' = SessionAfter(mcp_session_id, r)
    /\ lastToken' = IF HasSessionHeader(r) THEN SessionHeaderOf(r) ELSE lastToken
    /\ ndone' = ndone + 1
    /\ pc' = "classify"
    /\ logfile' = LogIf(DEBUG, ResponseLog(r))
    /\ UNCHANGED <<env, API_KEY, TIMEOUT, exitStatus, uncaught, rawline, line,
                   request_id, request, stdout, nread, nreq, posted, DEBUG>>

\* Lines 105-130: the response is classified and its result printed.
Classify ==
    /\ pc = "classify"
    /\ stdout' = stdout \o Emission(outcome, request_id, nread)
    /\ pc' = "running"
    /\ logfile' = LogIf(DEBUG, ClassifyLog(outcome))
    /\ UNCHANGED <<env, API_KEY, TIMEOUT, exitStatus, uncaught,
                   mcp_session_id, rawline, line, request_id, request,
                   outcome, nread, nreq, lastToken,
                   posted, ndone, DEBUG>>

\* Handlers that give the session up when the call fails.
PostRaisesDropsSession(e) ==
    /\ pc = "posting"
    /\ outcome' = e
    /\ stdout' = Append(stdout,
          ErrorUnit(ErrorDict(request_id, -32000, FailureMessage(e)), nread))
    /\ ndone' = ndone + 1
    /\ mcp_session_id' = None
    /\ pc' = "running"
    /\ logfile' = LogIf(DEBUG, FailureLog(e))
    /\ UNCHANGED <<env, API_KEY, TIMEOUT, exitStatus, uncaught,
                   rawline, line, request_id, request,
                   nread, nreq, lastToken, posted, DEBUG>>

\* Lines 132-155: the call raises; one except clause prints an error.
PostRaises(e) ==
    /\ pc = "posting"
    /\ outcome' = e
    /\ stdout' = Append(stdout,
          ErrorUnit(ErrorDict(request_id, -32000, FailureMessage(e)), nread))
    /\ ndone' = ndone + 1
    /\ pc' = "running"
    /\ logfile' = LogIf(DEBUG, FailureLog(e))
    /\ UNCHANGED <<env, API_KEY, TIMEOUT, exitStatus, uncaught,
                   mcp_session_id, rawline, line, request_id, request,
                   nread, nreq, lastToken, posted, DEBUG>>

Next ==
    \/ StartupBadTimeout
    \/ StartupNoCredential
    \/ StartupOk
    \/ ReadEOF
    \/ \E l \in Lines : ReadBlank(l)
    \/ \E l \in Lines : ReadNonObject(l)
    \/ \E l \in Lines : ReadAndPost(l)
    \/ \E r \in Responses : PostReturns(r)
    \/ Classify
    \/ \E e \in Exceptions(API_KEY) : PostRaises(e)

Spec == Init /\ [][Next]_vars

\* The script is a running process: start-up runs, readline returns once a
\* line or the end of the (finite) input is there, session.post returns or
\* raises within its timeout, and the statements in between take no time
\* to speak of.  So a step is taken whenever one can be.
FairSpec == Init /\ [][Next]_vars /\ WF_vars(Next)

\* The script started with or without debug logging.
DebugSpec == InitDebug /\ [][Next]_vars
\* ===================================================================
\* Properties
\* ===================================================================
\* Start-up got past the configuration and the credential check.
PassedStartup ==
    /\ pc # "startup"
    /\ Truthy(API_KEY)
    /\ uncaught # "ValueError"

\* The units printed for input line n.
UnitsFor(n) == { i \in 1..Len(stdout) : stdout[i].forLine = n }

\* The handling of the line last read is over.
IterationOver == pc \in {"running", "terminated"} /\ nread > 0 /\ rawline # <<>>

IsBlank(l) == \A i \in 1..Len(l) : l[i] \in Whitespace

\* C1: once start-up has passed the credential check the process ends
\* only because the input is exhausted (readline returned the empty
\* string), whatever the line read and whatever the downstream outcome.
C1_EndsOnlyOnExhaustion ==
    (PassedStartup /\ pc = "terminated") =>
        (rawline = <<>> /\ uncaught = None /\ exitStatus = 0)

\* C2: every non-blank line read yields exactly one unit, except that it
\* yields none exactly when the response has a status below 400 and an
\* empty body.
C2_OneUnitPerLine ==
    (IterationOver /\ ~IsBlank(rawline)) =>
        Cardinality(UnitsFor(nread)) =
            IF /\ outcome.kind = "response"
               /\ outcome.status_code < 400
               /\ outcome.text = <<>>
            THEN 0 ELSE 1

\* The request posted for the line last read.
PostedForLine == request.sent /\ request.forLine = nread /\ rawline # <<>>

\* The text of a line without the newline that ends it.
LineText(l) ==
    IF l # <<>> /\ l[Len(l)] = "\n" THEN SubSeq(l, 1, Len(l) - 1) ELSE l

LastUnit == stdout[Len(stdout)]

PrintedForLine == stdout # <<>> /\ LastUnit.forLine = nread

\* The post of the line last read returned a response and the response
\* has been classified.
Classified == pc = "running" /\ outcome.kind = "response"

\* C4: for a response with a status below 400 and a non-empty body, the
\* unit printed for the line is the body, character for character,
\* ended by the newline that delimits units.
C4_BodyEmittedVerbatim ==
    (Classified /\ outcome.status_code < 400 /\ outcome.text # <<>>) =>
        /\ PrintedForLine
        /\ LastUnit.kind = "raw"
        /\ LastUnit.text = outcome.text \o <<"\n">>

\* A body with a newline inside it has been passed through.
C4_Witness ==
    /\ Classified
    /\ outcome.status_code < 400
    /\ \E i \in 1..Len(outcome.text) : outcome.text[i] = "\n"
    /\ PrintedForLine
    /\ LastUnit.kind = "raw"

\* The id the line last read decodes with: the value of its "id" member
\* when the line is a JSON object that has one, None otherwise.
IdOfLine(l) ==
    LET r == JsonLoads(l)
    IN  IF r.ok /\ r.type = "dict" /\ "id" \in DOMAIN r.value
        THEN r.value["id"] ELSE None

\* C5: every error unit printed for a line carries the id that line
\* decodes with, or null when the line does not decode or has no id;
\* the id of an earlier line is never carried over.
C5_ErrorCarriesOwnId ==
    (nread > 0 /\ rawline # <<>>) =>
        \A i \in UnitsFor(nread) :
            stdout[i].kind = "error" => stdout[i].obj.id = IdOfLine(rawline)

\* A line with id 1 got an error unit with id 1, and the undecodable line
\* after it got an error unit with a null id.
C5_Witness ==
    /\ Len(stdout) = 2
    /\ stdout[1].kind = "error" /\ stdout[1].forLine = 1
    /\ stdout[1].obj.id = "1"
    /\ stdout[2].kind = "error" /\ stdout[2].forLine = 2
    /\ stdout[2].obj.id = None
    /\ nread = 2
    /\ ~JsonLoads(rawline).ok

\* C6: the first request carries no Mcp-Session-Id header, and once a
\* response has carried a token T every later request carries T in that
\* header until a response carries another token, whatever T is.
C6_RequestCarriesLastToken ==
    (pc = "posting") =>
        request.headers =
            IF lastToken = None THEN {} ELSE {<<SessionHeader, lastToken>>}

\* No unit has been printed yet for the line last read.
NothingPrintedForLine == UnitsFor(nread) = {}

\* C7: a response that has the session header overwrites the held token
\* with its value whatever the status, before the response is classified
\* and before anything is printed for the line; a response without the
\* header leaves the held token as it was.
C7_TokenCapturedBeforeClassify ==
    /\ PassedStartup => mcp_session_id = lastToken
    /\ (pc = "classify") =>
          /\ NothingPrintedForLine
          /\ HasSessionHeader(outcome) => mcp_session_id = SessionHeaderOf(outcome)

\* An error response has replaced the token that the request carried, and
\* nothing has been printed for the line yet.
C7_Witness ==
    /\ pc = "classify"
    /\ outcome.status_code >= 400
    /\ request.headers = {<<SessionHeader, "s1">>}
    /\ HasSessionHeader(outcome)
    /\ mcp_session_id = "s2"
    /\ NothingPrintedForLine

\* C8: start-up without a credential prints exactly one error unit (code
\* -32600, null id) and exits non-zero, before any line is read and
\* without any request, whatever the other configuration values are.
C8_NoCredentialOneError ==
    (pc = "terminated" /\ ~Truthy(EnvGet(env, "MCP_API_KEY", None))) =>
        /\ Len(stdout) = 1
        /\ stdout[1].kind = "error"
        /\ stdout[1].obj.id = None
        /\ stdout[1].obj.error.code = -32600
        /\ exitStatus > 0
        /\ nread = 0
        /\ nreq = 0

\* C9: a response with a status of 400 or more yields exactly one unit,
\* an error unit with code -32000 whose message is "HTTP <status>: "
\* followed by the body text; this also when the body is empty.
C9_ErrorStatusReported ==
    (Classified /\ outcome.status_code >= 400) =>
        /\ Cardinality(UnitsFor(nread)) = 1
        /\ PrintedForLine
        /\ LastUnit.kind = "error"
        /\ LastUnit.obj.error.code = -32000
        /\ LastUnit.obj.error.message =
              <<"HTTP ", StrRepr(outcome.status_code), ": ">> \o outcome.text

\* An error response with an empty body has been reported as an error.
C9_Witness ==
    /\ Classified
    /\ outcome.status_code >= 400
    /\ outcome.text = <<>>
    /\ PrintedForLine
    /\ LastUnit.kind = "error"

\* C10: a call that fails is reported as one error unit with code -32000
\* whose message is the timeout message for a timeout, the unreachable
\* message for a connection failure, and the failure's own description
\* for any other failure; the loop then waits for the next line.
C10_CallFailureReported ==
    (outcome.kind = "raise") =>
        /\ pc = "running"
        /\ Cardinality(UnitsFor(nread)) = 1
        /\ PrintedForLine
        /\ LastUnit.kind = "error"
        /\ LastUnit.obj.error.code = -32000
        /\ LastUnit.obj.error.message =
              CASE outcome.class \in {"ReadTimeout", "ConnectTimeout"} ->
                     <<"Request timed out">>
                [] outcome.class = "ConnectionError" ->
                     <<"Connection error: Is the WhatsApp MCP server running?">>
                [] OTHER -> outcome.desc

\* A connection failure on the first line was reported, the loop went on,
\* and a failure of another kind on the second line was reported too.
C10_Witness ==
    /\ Len(stdout) = 2
    /\ stdout[1].forLine = 1
    /\ stdout[1].obj.error.message =
          <<"Connection error: Is the WhatsApp MCP server running?">>
    /\ stdout[2].forLine = 2
    /\ outcome.kind = "raise"
    /\ outcome.class = "ChunkedEncodingError"
    /\ stdout[2].obj.error.message = outcome.desc
    /\ pc = "running"
\* The calls posted that have neither returned nor raised yet.
InFlight == Len(posted) - ndone

\* C11: at most one request is in flight; while a call is in flight or
\* its response awaits classification no later line has been read and
\* nothing has been printed for the line; no call is in flight when the
\* loop is about to read; units stand on stdout in the order of the lines
\* they were printed for.
C11_OneInFlightInOrder ==
    /\ InFlight \in {0, 1}
    /\ (pc \in {"running", "terminated"}) => InFlight = 0
    /\ (pc \in {"posting", "classify"}) =>
          /\ posted # <<>>
          /\ posted[Len(posted)] = nread
          /\ NothingPrintedForLine
    /\ \A i \in 1..Len(posted) : \A j \in 1..Len(posted) :
          i < j => posted[i] < posted[j]
    /\ \A i \in 1..Len(stdout) : \A j \in 1..Len(stdout) :
          i < j => stdout[i].forLine < stdout[j].forLine

\* The unit of the first line is out and the call for the second line is
\* in flight.
C11_Witness ==
    /\ pc = "posting"
    /\ nread = 2
    /\ InFlight = 1
    /\ Len(stdout) = 1
    /\ stdout[1].forLine = 1
\* The lines requests were posted for.
PostedLines == { posted[i] : i \in 1..Len(posted) }

\* C12: with finitely many input lines and calls that all return or
\* fail, a bridge that has entered its loop ends by exhausting its input:
\* readline has returned the empty string, every call has ended, nothing
\* was printed but the units of posted lines, and the exit status is 0.
C12_TerminatesCleanly ==
    (pc = "running") ~>
        /\ pc = "terminated"
        /\ rawline = <<>>
        /\ InFlight = 0
        /\ \A i \in 1..Len(stdout) : stdout[i].forLine \in PostedLines
        /\ uncaught = None
        /\ exitStatus = 0
\* The line last read is not blank and does not decode as JSON.
UndecodableLineRead ==
    nread > 0 /\ rawline # <<>> /\ ~IsBlank(rawline) /\ ~JsonLoads(rawline).ok

\* C13: a line that does not decode is not fatal and is posted exactly
\* once with a null id; once its call has ended its reply has been
\* treated like any other: a raw unit for a non-empty body with a status
\* below 400, nothing for an empty one, an error unit with a null id
\* otherwise.
C13_UndecodableForwarded ==
    UndecodableLineRead =>
        /\ uncaught = None
        /\ pc # "terminated"
        /\ Cardinality({ i \in 1..Len(posted) : posted[i] = nread }) = 1
        /\ PostedForLine
        /\ request_id = None
        /\ (pc = "running") =>
              IF outcome.kind = "response" /\ outcome.status_code < 400
              THEN IF outcome.text = <<>>
                   THEN NothingPrintedForLine
                   ELSE PrintedForLine /\ LastUnit.kind = "raw"
              ELSE /\ PrintedForLine
                   /\ LastUnit.kind = "error"
                   /\ LastUnit.obj.id = None

\* The reply to a line that does not decode has been passed through.
C13_Witness ==
    /\ UndecodableLineRead
    /\ pc = "running"
    /\ outcome.kind = "response"
    /\ outcome.status_code = 200
    /\ PrintedForLine
    /\ LastUnit.kind = "raw"
\* The line last read is empty or whitespace only.
BlankLineRead == nread > 0 /\ rawline # <<>> /\ IsBlank(rawline)

\* C14: a blank line is discarded: no request is posted for it, nothing
\* is printed for it, the held token is still the one the last response
\* gave, and the loop is back at reading.
C14_BlankLineDiscarded ==
    BlankLineRead =>
        /\ pc = "running"
        /\ uncaught = None
        /\ nread \notin PostedLines
        /\ ~(request.sent /\ request.forLine = nread)
        /\ InFlight = 0
        /\ NothingPrintedForLine
        /\ outcome = NoOutcome
        /\ mcp_session_id = lastToken

\* A blank line came after a line whose response set the token.
C14_Witness ==
    /\ BlankLineRead
    /\ nread = 2
    /\ posted = <<1>>
    /\ mcp_session_id = "s1"
    /\ Len(rawline) > 1
\* C16: a call that raises leaves the held token as it was, and the
\* request posted next carries the same session header as the request
\* that failed.
C16_FailureKeepsToken ==
    [][ /\ (pc = "posting" /\ outcome'.kind = "raise") =>
              mcp_session_id' = mcp_session_id
        /\ (pc = "running" /\ outcome.kind = "raise" /\ pc' = "posting") =>
              request'.headers = request.headers ]_vars

\* The call of a request that carried a token has failed and the token is
\* still held.
C16_Witness ==
    /\ pc = "running"
    /\ outcome.kind = "raise"
    /\ request.forLine = nread
    /\ request.headers = {<<SessionHeader, "s1">>}
    /\ mcp_session_id = "s1"

\* C17: once a response has carried the session header the held token is
\* never None again: it is a value that a response carried.
C17_TokenNeverUnsetAgain ==
    (lastToken # None) =>
        (mcp_session_id # None /\ mcp_session_id \in SessionTokens)

\* A token is held while an error response without the header awaits
\* classification.
C17_Witness ==
    /\ pc = "classify"
    /\ nread = 2
    /\ outcome.status_code >= 400
    /\ ~HasSessionHeader(outcome)
    /\ lastToken = "s2"
    /\ mcp_session_id = "s2"

\* C18: every unit written to stdout is exactly one line: its text ends
\* with a newline and has no newline before its end.
C18_OneUnitOneLine ==
    \A i \in 1..Len(stdout) :
        LET t == stdout[i].text
        IN  /\ t # <<>>
            /\ t[Len(t)] = "\n"
            /\ \A k \in 1..(Len(t) - 1) : t[k] # "\n"

\* C19: a failed call is reported by exactly one handler, the first that
\* matches in the order timeout, connection failure, catch-all: a failure
\* that is both a timeout and a connection failure gets the timeout
\* message only.
C19_FirstHandlerOnly ==
    (outcome.kind = "raise") =>
        /\ Cardinality(UnitsFor(nread)) = 1
        /\ PrintedForLine
        /\ LET m == LastUnit.obj.error.message
           IN  /\ ("Timeout" \in outcome.bases) => m = <<"Request timed out">>
               /\ ("Timeout" \notin outcome.bases
                     /\ "ConnectionError" \in outcome.bases) =>
                     m = <<"Connection error: Is the WhatsApp MCP server running?">>
               /\ ("Timeout" \notin outcome.bases
                     /\ "ConnectionError" \notin outcome.bases) => m = outcome.desc

\* A timeout while connecting has been reported with the timeout message.
C19_Witness ==
    /\ outcome.kind = "raise"
    /\ {"Timeout", "ConnectionError"} \subseteq outcome.bases
    /\ PrintedForLine
    /\ LastUnit.obj.error.message = <<"Request timed out">>
    /\ Cardinality(UnitsFor(nread)) = 1
\* The log line e has the credential in it.
ShowsCredential(e) ==
    \E k \in 1..Len(e) : e[k] = EnvGet(env, "MCP_API_KEY", None)

\* C15: no line of the diagnostic log shows the credential, on any path
\* of the loop, and with debug logging off nothing is written to the log.
C15_LogKeepsSecret ==
    /\ \A i \in 1..Len(logfile) : ~ShowsCredential(logfile[i])
    /\ ~DebugOf(env) => logfile = <<>>
====
